---- MODULE Spec2Model ----
(***************************************************************************)
(* Model of the incremental backup / recovery tool (lib/backup).           *)
(*                                                                         *)
(* A path is a sequence of names; the empty sequence is ".".  A file is a  *)
(* record [content, mtime]; its content is a sequence of bytes, so its     *)
(* size is the length of the content and its hash is the content itself.   *)
(* A tree is a function from the relative paths of its regular files to    *)
(* files; directories are the proper prefixes of those paths.              *)
(* Times are in units of 0.1 ms.                                           *)
(*                                                                         *)
(* Spec is the backup protocol: backups run step by step (plan, delete     *)
(* loop, upload loop, manifest put), may fail or be killed, and the tree   *)
(* changes between invocations.  SpecRecover is backups that run to their  *)
(* end followed by a recovery.  SpecManifest is backups, dry or not, under *)
(* either name of the local manifest file, with a loss of that file and a  *)
(* recovery.  SpecCompare applies downloadAndCompareDB to pairs of         *)
(* manifests and SpecPlan applies getFilesToBackup to trees.  Every        *)
(* behaviour keeps one root, one size threshold and one manifest path;     *)
(* Spec and SpecRecover start no dry run.                                  *)
(***************************************************************************)
EXTENDS Integers, Sequences, FiniteSets, TLC

VARIABLES
    root,       \* localRoot after filepath.Clean: <<>> is ".", else an absolute directory
    sizeThreshold,  \* the batch size threshold every backup of the behaviour is given
    fs,         \* the source tree under root
    dbExists,   \* the local manifest file exists
    db,         \* the records of the local manifest: path -> [ModTime, Hash, Batch]
    objects,    \* the archives under <prefixBase>/<name>/: key stem -> archive
    remoteDb,   \* the object <prefixBase>/<name>.db.gz: [present, recs]
    dest,       \* the tree the last recovery left in its destination
    pc,         \* "run" while a backup is between its plan and its return, else "idle"
    dryRun,     \* the running backup's dryRun argument
    plan,       \* the planned batches still to be backed up
    toDelete,   \* the retired batches still to be deleted
    log,        \* what the current (or last) invocation did to the remote and the manifest
    last,       \* the current (or last) invocation: its arguments, what it started from, its outcome
    prev,       \* the invocation before it
    budget,     \* what the rest of the behaviour may still hold: runs, edits, faults, ...
    dbFile,     \* the base name of the local manifest path the caller passes
    otherDbs,   \* the objects put under <prefixBase>/ at other keys than <name>.db.gz
    probe       \* the arguments and the result of a function applied on its own

vars == <<root, sizeThreshold, fs, dbExists, db, objects, remoteDb, dest, pc, dryRun, plan,
          toDelete, log, last, prev, budget, dbFile, otherDbs, probe>>

----------------------------------------------------------------------------
(* Bounds of the model *)

\* backups in one behaviour
MaxRuns == 3
\* changes of the source tree in one behaviour
MaxEdits == 1
\* failed calls and interruptions in one behaviour
MaxFaults == 1
\* backups before the recovery, in the behaviours that end with a recovery
MaxRunsBeforeRecovery == 2

\* backups, and dry runs among them, in the behaviours about the manifest file
MaxRunsManifest == 2
MaxDryRuns == 1
\* losses of the local manifest file in one behaviour
MaxLosses == 1

\* the largest size threshold the planner is given on its own
MaxThreshold == 8
\* backups before the recovery, in the behaviours with a foreign object under the prefix
MaxRunsForeign == 1

(* Units of time *)
TicksPerMs == 10
TicksPerSecond == 10000

\* byte order of the names that occur in paths
NameOrder == <<"_files", "a", "a.txt", "b", "b.txt", "backup.db", "big.txt", "c.txt", "d",
               "eight", "five", "four", "nine", "one", "seven", "six", "subdir-1", "three",
               "two">>
\* byte order of the pieces of an object key: a directory with its "/", or the archive's name
KeyTokenOrder == <<"README", "_files.tar.gz", "a.tar.gz", "a/", "b.tar.gz", "b/", "d.tar.gz",
                   "d/">>

\* the relative paths a source file may have; "d" is a file or a directory
Paths == { <<"a">>, <<"d">>, <<"d", "a">>, <<"d", "b">> }
Contents == { <<1>>, <<2, 2>> }
Times == { 10000, 10005, 20000 }
Thresholds == { 1, 2, 8 }
Roots == { <<>>, <<"/data">> }

Files == [content : Contents, mtime : Times]

----------------------------------------------------------------------------
(* Paths *)

IsPrefix(p, q) == Len(p) <= Len(q) /\ SubSeq(q, 1, Len(p)) = p
IsProperPrefix(p, q) == Len(p) < Len(q) /\ SubSeq(q, 1, Len(p)) = p
Front(p) == SubSeq(p, 1, Len(p) - 1)
Last(p) == p[Len(p)]

\* filepath.Join(a, b) for cleaned paths: joining onto "." gives b
Join(a, b) == a \o b
\* the number of leading components two paths share
CommonLen(p, q) ==
    CHOOSE k \in 0..Len(p) :
        /\ k <= Len(q)
        /\ SubSeq(p, 1, k) = SubSeq(q, 1, k)
        /\ k < Len(p) /\ k < Len(q) => p[k + 1] # q[k + 1]
\* filepath.Rel(base, p): a ".." for every component of base that p leaves, then the rest of p
Rel(base, p) ==
    LET k == CommonLen(base, p)
    IN  [i \in 1..(Len(base) - k) |-> ".."] \o SubSeq(p, k + 1, Len(p))

NameRank(n) == CHOOSE i \in 1..Len(NameOrder) : NameOrder[i] = n

\* a tree: no file's path is a directory of another file
IsTree(t) == \A p, q \in DOMAIN t : ~IsProperPrefix(p, q)
Trees == { t \in UNION { [S -> Files] : S \in SUBSET Paths } : IsTree(t) }

IsDir(t, p) == \E q \in DOMAIN t : IsProperPrefix(p, q)

\* os.ReadDir: the entries of directory dir, sorted by filename
ReadDir(t, dir) ==
    LET names == { q[Len(dir) + 1] : q \in { r \in DOMAIN t : IsProperPrefix(dir, r) } }
    IN  SelectSeq(NameOrder, LAMBDA n : n \in names)

Size(f) == Len(f.content)
getFileHash(f) == f.content

\* a sum that counts the files, not their bytes
sumSizesCounted(arr) == Len(arr)

RECURSIVE sumSizes(_)
sumSizes(arr) == IF arr = <<>> THEN 0 ELSE arr[1].Size + sumSizes(Tail(arr))

----------------------------------------------------------------------------
(* Manifest store (lib/backup/db.go) *)

\* the mod_time column: "2006-01-02 15:04:05.000" keeps milliseconds
FormatModTime(t) == (t \div TicksPerMs) * TicksPerMs
TruncateSecond(t) == (t \div TicksPerSecond) * TicksPerSecond

NoRows == [none |-> TRUE]
GetFileInfo(d, path) == IF path \in DOMAIN d THEN d[path] ELSE NoRows

MarkFile(d, path, modTime, hash, batch) ==
    [p \in DOMAIN d \cup {path} |->
        IF p = path
        THEN [ModTime |-> FormatModTime(modTime), Hash |-> hash, Batch |-> batch]
        ELSE d[p]]

GetFilesInBatch(d, batch) == { p \in DOMAIN d : d[p].Batch = batch }

\* a delete of the record at the path of the batch, not of the records of the batch
DeleteBatchByPath(d, batch) == [p \in DOMAIN d \ {batch} |-> d[p]]

DeleteBatch(d, batch) == [p \in { q \in DOMAIN d : d[q].Batch # batch } |-> d[p]]

\* all_records(): every record with its path
GetAllFiles(d) == { [Path |-> p, ModTime |-> d[p].ModTime, Hash |-> d[p].Hash,
                     Batch |-> d[p].Batch] : p \in DOMAIN d }

\* GROUP BY batch: the batches, each with count(*) and sum(is_dir)
BatchGroups(d) ==
    { [batch |-> b,
       numFiles |-> Cardinality(GetFilesInBatch(d, b)),
       numGroupedFiles |-> Cardinality({ p \in GetFilesInBatch(d, b) : p # b })]
      : b \in { d[p].Batch : p \in DOMAIN d } }

GetExistingBatchesFails(d) ==
    \E g \in BatchGroups(d) : g.numGroupedFiles > 0 /\ g.numGroupedFiles # g.numFiles

\* a reader that takes every batch of one record for a single file
GetExistingBatchesByCount(d) ==
    { [Path |-> g.batch, IsSingleFile |-> (g.numFiles = 1)] : g \in BatchGroups(d) }

GetExistingBatches(d) ==
    { [Path |-> g.batch, IsSingleFile |-> (g.numGroupedFiles = 0)] : g \in BatchGroups(d) }

----------------------------------------------------------------------------
(* Change detector and batch planner *)

\* a filter with the test turned round
doBackupFileInverted(name) == name = "backup.db"

doBackupFile(name) == name # "backup.db"

\* a detector that trusts the hash alone
doesFileNeedBackupHashOnly(d, path, f) ==
    LET fi == GetFileInfo(d, path) IN
    IF fi = NoRows THEN [dirty |-> TRUE, op |-> "Add", reason |-> "New"]
    ELSE IF getFileHash(f) # fi.Hash
         THEN [dirty |-> TRUE, op |-> "Change", reason |-> "Hash"]
         ELSE [dirty |-> FALSE, op |-> "None", reason |-> "None"]

\* doesFileNeedBackup(db, path, info): path is the path as the walk joined it
doesFileNeedBackup(d, path, f) ==
    LET fi == GetFileInfo(d, path) IN
    IF fi = NoRows THEN [dirty |-> TRUE, op |-> "Add", reason |-> "New"]
    ELSE LET modTimeChanged == TruncateSecond(f.mtime) # TruncateSecond(fi.ModTime)
             hashChanged == getFileHash(f) # fi.Hash
         IN  IF ~modTimeChanged /\ ~hashChanged
             THEN [dirty |-> FALSE, op |-> "None", reason |-> "None"]
             ELSE IF hashChanged
                  THEN [dirty |-> TRUE, op |-> "Change", reason |-> "Hash"]
                  ELSE [dirty |-> TRUE, op |-> "Change", reason |-> "ModTime"]

\* sort.Slice by size, descending (insertion sort below 12 elements: equal sizes keep
\* their order)
RECURSIVE InsertBySize(_, _)
InsertBySize(sorted, x) ==
    IF sorted = <<>> THEN <<x>>
    ELSE IF x.FileSize > Last(sorted).FileSize
         THEN InsertBySize(Front(sorted), x) \o <<Last(sorted)>>
         ELSE sorted \o <<x>>

\* a loop that pops the files in the order of the directory listing
SortBySizeSkipped(s) == s

RECURSIVE SortBySizeDesc(_)
SortBySizeDesc(s) ==
    IF s = <<>> THEN <<>> ELSE InsertBySize(SortBySizeDesc(Front(s)), Last(s))

Batch(batchRoot, files, total) == [Root |-> batchRoot, TotalSize |-> total, Files |-> files]

\* a planner that names the batch of a single remaining file after its directory
BatchRootForDirectory(relativeRoot, files) == relativeRoot

\* "If it's just one file, use the file path as the Root"
BatchRootFor(relativeRoot, files) == IF Len(files) = 1 THEN files[1].Path ELSE relativeRoot

\* a loop that gives the largest file a batch of its own and keeps it in the rest too
PopLargestKeeps(files, sum, T, out) ==
    IF sum > T /\ Len(files) > 0
    THEN [files |-> files, sum |-> sum,
          out |-> Append(out, Batch(files[1].Path, <<files[1]>>, files[1].FileSize))]
    ELSE [files |-> files, sum |-> sum, out |-> out]

\* a loop that names the batch of a popped file after the directory of the file
RECURSIVE PopLargestDirRoot(_, _, _, _)
PopLargestDirRoot(files, sum, T, out) ==
    IF sum > T /\ Len(files) > 0
    THEN PopLargestDirRoot(Tail(files), sum - files[1].FileSize, T,
                           Append(out, Batch(Front(files[1].Path), <<files[1]>>,
                                             files[1].FileSize)))
    ELSE [files |-> files, sum |-> sum, out |-> out]

\* the loop that pops the largest files until the rest is below the threshold
RECURSIVE PopLargest(_, _, _, _)
PopLargest(files, sum, T, out) ==
    IF sum > T /\ Len(files) > 0
    THEN PopLargest(Tail(files), sum - files[1].FileSize, T,
                    Append(out, Batch(files[1].Path, <<files[1]>>, files[1].FileSize)))
    ELSE [files |-> files, sum |-> sum, out |-> out]

\* a roll-up that keeps the files of a directory together whatever their size
OwnFileBatchesWhole(relativeRoot, dirFiles, T) ==
    IF Len(dirFiles) = 0 THEN <<>>
    ELSE << Batch(BatchRootFor(relativeRoot, dirFiles), dirFiles,
                  sumSizes([i \in 1..Len(dirFiles) |-> [Size |-> dirFiles[i].FileSize]])) >>

\* "Start by rolling up the files at the current directory's level"
OwnFileBatches(relativeRoot, dirFiles, T) ==
    IF Len(dirFiles) = 0 THEN <<>>
    ELSE LET sum == sumSizes([i \in 1..Len(dirFiles) |-> [Size |-> dirFiles[i].FileSize]])
         IN  IF sum <= T
             THEN << Batch(BatchRootFor(relativeRoot, dirFiles), dirFiles, sum) >>
             ELSE LET r == PopLargest(SortBySizeDesc(dirFiles), sum, T, <<>>)
                  IN  IF Len(r.files) > 0
                      THEN Append(r.out, Batch(BatchRootFor(relativeRoot, r.files), r.files, r.sum))
                      ELSE r.out

\* a merge that takes the files of the first candidate only
ConcatFilesFirstOnly(batches) ==
    IF batches = <<>> THEN <<>> ELSE batches[1].Files

RECURSIVE ConcatFiles(_)
ConcatFiles(batches) ==
    IF batches = <<>> THEN <<>> ELSE batches[1].Files \o ConcatFiles(Tail(batches))

BatchSizes(batches) == [i \in 1..Len(batches) |-> [Size |-> batches[i].TotalSize]]

RECURSIVE getFilesToBackup(_, _, _, _, _)
RECURSIVE ScanEntries(_, _, _, _, _, _, _)

\* the loop over the entries of searchPath; acc is [dirFiles, maybeRollupBatches, otherBatches]
ScanEntries(t, d, rt, searchPath, T, entries, acc) ==
    IF entries = <<>> THEN acc
    ELSE LET name == Head(entries)
             rel == Append(searchPath, name)
             path == Join(rt, rel)
         IN  IF rel \in DOMAIN t
             THEN IF ~doBackupFile(name)
                  THEN ScanEntries(t, d, rt, searchPath, T, Tail(entries), acc)
                  ELSE ScanEntries(t, d, rt, searchPath, T, Tail(entries),
                         [acc EXCEPT !.dirFiles = Append(@,
                             [Path |-> Rel(rt, path),
                              FileSize |-> Size(t[rel]),
                              IsDirty |-> doesFileNeedBackup(d, path, t[rel]).dirty])])
             ELSE LET subBatches == getFilesToBackup(t, d, rt, rel, T)
                  IN  ScanEntries(t, d, rt, searchPath, T, Tail(entries),
                         IF Len(subBatches) > 1
                         THEN [acc EXCEPT !.otherBatches = @ \o subBatches]
                         ELSE [acc EXCEPT !.maybeRollupBatches = @ \o subBatches])

\* getFilesToBackup(db, root, searchPath, sizeThreshold); searchPath is given relative to root
getFilesToBackup(t, d, rt, searchPath, T) ==
    LET acc == ScanEntries(t, d, rt, searchPath, T, ReadDir(t, searchPath),
                   [dirFiles |-> <<>>, maybeRollupBatches |-> <<>>, otherBatches |-> <<>>])
        relativeRoot == searchPath
        outputBatches == OwnFileBatches(relativeRoot, acc.dirFiles, T)
        totalSize == sumSizes(BatchSizes(acc.maybeRollupBatches))
                     + (IF Len(outputBatches) > 0 THEN outputBatches[1].TotalSize ELSE 0)
    IN  IF Len(acc.dirFiles) = 0 /\ Len(acc.otherBatches) = 0 /\ Len(acc.maybeRollupBatches) = 1
        THEN acc.maybeRollupBatches
        ELSE IF /\ Len(outputBatches) <= 1
                /\ Len(acc.maybeRollupBatches) > 0
                /\ Len(acc.otherBatches) = 0
                /\ totalSize <= T
             THEN << Batch(relativeRoot,
                           (IF Len(outputBatches) > 0 THEN outputBatches[1].Files ELSE <<>>)
                               \o ConcatFiles(acc.maybeRollupBatches),
                           totalSize) >>
             ELSE outputBatches \o acc.otherBatches \o acc.maybeRollupBatches

getBatchesToDelete(d, batches) ==
    LET plannedBatches == { batches[i].Root : i \in 1..Len(batches) }
    IN  { b \in GetExistingBatches(d) : b.Path \notin plannedBatches }

PlanFiles(batches) == { f.Path : f \in UNION { { b.Files[i] : i \in 1..Len(b.Files) }
                                                : b \in { batches[j] : j \in 1..Len(batches) } } }

getFilesNotInBatches(d, batches) ==
    { r.Path : r \in { x \in GetAllFiles(d) : x.Path \notin PlanFiles(batches) } }

fileHasChangedBatch(d, rt, path, batch) ==
    LET fi == GetFileInfo(d, Join(rt, path)) IN
    IF fi = NoRows THEN TRUE ELSE batch # fi.Batch

markFile(d, t, path, batch) == MarkFile(d, path, t[path].mtime, getFileHash(t[path]), batch)

RECURSIVE markFiles(_, _, _, _)
markFiles(d, t, files, batch) ==
    IF files = <<>> THEN d ELSE markFiles(markFile(d, t, files[1], batch), t, Tail(files), batch)

----------------------------------------------------------------------------
(* Archives and object keys *)

\* backupFile: archiveName := filePath + ".tar.gz"
FileArchiveName(filePath) == Append(Front(filePath), Last(filePath) \o ".tar.gz")
\* backupDirectory: filepath.Join(localBatchRoot, "_files.tar.gz")
DirArchiveName(batchRoot) == Join(batchRoot, <<"_files.tar.gz">>)

\* deleteBatch: the key of a batch of the manifest
BatchMetaKey(b) == IF b.IsSingleFile THEN FileArchiveName(b.Path) ELSE DirArchiveName(b.Path)

\* backupBatch: the key a planned batch is put at
BatchKey(batch) ==
    IF Len(batch.Files) > 1 THEN DirArchiveName(batch.Root)
    ELSE FileArchiveName(batch.Files[1].Path)

\* addFileToArchive: one entry per file, named relative to the archive's local root,
\* with the file's mod-time (PAX keeps it whole) and content
backupFilesToArchive(t, localBatchRoot, files) ==
    [i \in 1..Len(files) |->
        [Name |-> Rel(localBatchRoot, files[i]),
         ModTime |-> t[files[i]].mtime,
         Content |-> t[files[i]].content]]

BatchPaths(batch) == [i \in 1..Len(batch.Files) |-> batch.Files[i].Path]

\* an archive rooted at the directory of its first file, whatever the number of files
BatchArchiveAtFirstFile(t, batch) ==
    backupFilesToArchive(t, Front(batch.Files[1].Path), BatchPaths(batch))

BatchArchive(t, batch) ==
    IF Len(batch.Files) > 1
    THEN backupFilesToArchive(t, batch.Root, BatchPaths(batch))
    ELSE backupFilesToArchive(t, Front(batch.Files[1].Path), BatchPaths(batch))

PutObject(objs, key, body) == [k \in DOMAIN objs \cup {key} |-> IF k = key THEN body ELSE objs[k]]
DeleteObject(objs, key) == [k \in DOMAIN objs \ {key} |-> objs[k]]

\* the backup's name, and the base names callers give the local manifest file
BackupName == "n"
\* main.go: fmt.Sprintf("%s.db", backupName); a file name is its pieces between the dots
DbFileName(name) == <<name, "db">>
DbFiles == { DbFileName(BackupName), <<"backup", "db">> }

\* backupFileNoArchive: key := localPath + ".gz", under the prefix it is given
NoArchiveKey(localPath) == Append(localPath, "gz")
\* downloadDB: fmt.Sprintf("%s.db.gz", backupName), under prefixBase
remoteDBKey(backupName) == <<backupName, "db", "gz">>

\* a backupDB that puts nothing
backupDBNoPut(remote, others, file, d) == [remoteDb |-> remote, otherDbs |-> others]

\* backupDB: the objects under prefixBase after the put of the manifest file
backupDB(remote, others, file, d) ==
    IF NoArchiveKey(file) = remoteDBKey(BackupName)
    THEN [remoteDb |-> [present |-> TRUE, recs |-> d], otherDbs |-> others]
    ELSE [remoteDb |-> remote, otherDbs |-> PutObject(others, NoArchiveKey(file), d)]

KeyToken(k, i) == IF i < Len(k) THEN k[i] \o "/" ELSE k[i]
KeyTokenRank(tok) == CHOOSE i \in 1..Len(KeyTokenOrder) : KeyTokenOrder[i] = tok

\* ListObjectsV2 returns keys in byte order
KeyLess(k1, k2) ==
    \E i \in 1..Len(k1) :
        /\ i <= Len(k2)
        /\ \A j \in 1..(i - 1) : KeyToken(k1, j) = KeyToken(k2, j)
        /\ KeyTokenRank(KeyToken(k1, i)) < KeyTokenRank(KeyToken(k2, i))

RECURSIVE ListObjects(_)
ListObjects(keys) ==
    IF keys = {} THEN <<>>
    ELSE LET first == CHOOSE k \in keys : \A o \in keys \ {k} : KeyLess(k, o)
         IN  <<first>> \o ListObjects(keys \ {first})

----------------------------------------------------------------------------
(* Manifest reconcile *)

PathLess(p, q) ==
    \/ IsProperPrefix(p, q)
    \/ \E i \in 1..Len(p) :
        /\ i <= Len(q)
        /\ SubSeq(p, 1, i - 1) = SubSeq(q, 1, i - 1)
        /\ NameRank(p[i]) < NameRank(q[i])

\* sort.Slice(files, by Path)
RECURSIVE SortByPath(_)
SortByPath(recs) ==
    IF recs = {} THEN <<>>
    ELSE LET first == CHOOSE r \in recs : \A o \in recs \ {r} : PathLess(r.Path, o.Path)
         IN  <<first>> \o SortByPath(recs \ {first})

\* "Compare each file in the local db to the remote db"
RECURSIVE CompareLocal(_, _)
CompareLocal(localFiles, remote) ==
    IF localFiles = <<>> THEN <<>>
    ELSE LET localFile == localFiles[1]
             remoteFile == GetFileInfo(remote, localFile.Path)
         IN  (IF remoteFile = NoRows
              THEN << <<localFile.Path, "not found in remote db">> >>
              ELSE (IF localFile.ModTime # remoteFile.ModTime
                    THEN << <<localFile.Path, "different mod time">> >> ELSE <<>>)
                   \o (IF localFile.Hash # remoteFile.Hash
                       THEN << <<localFile.Path, "different hash">> >> ELSE <<>>)
                   \o (IF localFile.Batch # remoteFile.Batch
                       THEN << <<localFile.Path, "different batch">> >> ELSE <<>>))
             \o CompareLocal(Tail(localFiles), remote)

\* a reconcile that does not look for the paths only the remote manifest has
CompareRemoteOff(remoteFiles, local) == <<>>

\* "check for files that are in the remote db but not the local db"
RECURSIVE CompareRemote(_, _)
CompareRemote(remoteFiles, local) ==
    IF remoteFiles = <<>> THEN <<>>
    ELSE (IF remoteFiles[1].Path \notin DOMAIN local
          THEN << <<remoteFiles[1].Path, "not found in local db">> >> ELSE <<>>)
         \o CompareRemote(Tail(remoteFiles), local)

CompareDBs(local, remote) ==
    CompareLocal(SortByPath(GetAllFiles(local)), remote)
        \o CompareRemote(SortByPath(GetAllFiles(remote)), local)

\* downloadAndCompareDB: nil when the local manifest file or the remote manifest is missing
downloadAndCompareDB(localExists, local, remote) ==
    IF ~localExists THEN <<>>
    ELSE IF ~remote.present THEN <<>>
    ELSE CompareDBs(local, remote.recs)

----------------------------------------------------------------------------
(* Recovery: download and extract (recovery.go, compression.go, s3_helpers) *)

\* some directory on the way to path p is a regular file of t
BlockedByFile(t, p) == \E q \in DOMAIN t : IsProperPrefix(q, p)

\* os.OpenFile(target, O_CREATE|O_RDWR) and io.Copy: an existing file is not truncated
WriteOver(t, target, content) ==
    IF target \in DOMAIN t /\ Len(t[target].content) > Len(content)
    THEN content \o SubSeq(t[target].content, Len(content) + 1, Len(t[target].content))
    ELSE content

SetFile(t, path, f) == [q \in DOMAIN t \cup {path} |-> IF q = path THEN f ELSE t[q]]
RemoveFile(t, path) == [q \in DOMAIN t \ {path} |-> t[q]]

\* unTar(path, destinationDir): the entries in order; stops at the first error
RECURSIVE unTar(_, _, _)
unTar(t, destinationDir, entries) ==
    IF entries = <<>> THEN [tree |-> t, err |-> FALSE]
    ELSE LET header == entries[1]
             target == Join(destinationDir, header.Name)
         IN  IF BlockedByFile(t, target) \/ IsDir(t, target)
             THEN [tree |-> t, err |-> TRUE]
             ELSE unTar(SetFile(t, target, [content |-> WriteOver(t, target, header.Content),
                                            mtime |-> header.ModTime]),
                        destinationDir, Tail(entries))

\* the body of an object that is no archive: its bytes, under no entry name
RawBody(bytes) == << [Name |-> <<>>, ModTime |-> 0, Content |-> bytes] >>
\* gzip.NewReader accepts the body
IsGzip(body) == \A i \in 1..Len(body) : body[i].Name # <<>>

\* the loop over output.Contents of RecoverFiles: download, extract, remove the archive;
\* unTar fails on a body that is no archive, and the downloaded file stays where it is
RECURSIVE RecoverObjects(_, _, _)
RecoverObjects(t, objs, keys) ==
    IF keys = <<>> THEN [tree |-> t, err |-> FALSE]
    ELSE LET localPath == keys[1]
         IN  IF BlockedByFile(t, localPath) \/ IsDir(t, localPath)
             THEN [tree |-> t, err |-> TRUE]
             ELSE IF ~IsGzip(objs[keys[1]])
             THEN [tree |-> SetFile(t, localPath, [content |-> objs[keys[1]][1].Content,
                                                   mtime |-> 20000]),
                   err |-> TRUE]
             ELSE LET r == unTar(RemoveFile(t, localPath), Front(localPath), objs[keys[1]])
                  IN  IF r.err THEN r
                      ELSE RecoverObjects(RemoveFile(r.tree, localPath), objs, Tail(keys))

----------------------------------------------------------------------------
(* The state machine *)

\* the source trees of the protocol: each file small and old, or large and new
ProtocolFiles == { [content |-> <<1>>, mtime |-> 10005], [content |-> <<2, 2>>, mtime |-> 20000] }
ProtocolTrees == { t \in Trees : \A p \in DOMAIN t : t[p] \in ProtocolFiles }
ProtocolThresholds == { 2, 8 }
\* the most files a batch of such a tree holds
MaxBatchFiles == Cardinality(Paths)

NoRemoteDb == [present |-> FALSE, recs |-> <<>>]

NoInvocation ==
    [kind |-> "none", outcome |-> "none", dryRun |-> FALSE, forced |-> FALSE,
     changes |-> <<>>, fs |-> <<>>, db |-> <<>>, dbExisted |-> FALSE,
     objects |-> <<>>, remoteDb |-> NoRemoteDb, session |-> "none"]

Summary(inv) == [kind |-> inv.kind, outcome |-> inv.outcome, dryRun |-> inv.dryRun, fs |-> inv.fs]

NoProbe == [fn |-> "none"]

InitProtocol ==
    /\ dbExists = FALSE
    /\ db = <<>>
    /\ objects = <<>>
    /\ remoteDb = NoRemoteDb
    /\ otherDbs = <<>>
    /\ dest = <<>>
    /\ pc = "idle"
    /\ dryRun = FALSE
    /\ plan = <<>>
    /\ toDelete = {}
    /\ log = <<>>
    /\ last = NoInvocation
    /\ prev = Summary(NoInvocation)

InitSource ==
    /\ root \in Roots
    /\ sizeThreshold \in ProtocolThresholds
    /\ fs \in ProtocolTrees
    /\ dbFile = DbFileName(BackupName)
    /\ probe = NoProbe

Init ==
    /\ InitSource
    /\ InitProtocol
    /\ budget = [runs |-> MaxRuns, dryRuns |-> 0, edits |-> MaxEdits, faults |-> MaxFaults,
                 recoveries |-> 0, losses |-> 0]

\* the invocation ends: by return or by log.Fatalf, or because it was interrupted
Finish(outcome) ==
    /\ pc' = "idle"
    /\ plan' = <<>>
    /\ toDelete' = {}
    /\ last' = [last EXCEPT !.outcome = outcome]

\* a call fails, or the process is killed
Fault(outcome) ==
    /\ budget.faults > 0
    /\ budget' = [budget EXCEPT !.faults = @ - 1]
    /\ Finish(outcome)

\* the user changes the source tree between two invocations
EditTree(t) ==
    /\ pc = "idle"
    /\ last.kind # "none"
    /\ budget.edits > 0
    /\ t # fs
    /\ fs' = t
    /\ budget' = [budget EXCEPT !.edits = @ - 1]
    /\ UNCHANGED <<root, sizeThreshold, dbFile, otherDbs, dbExists, db, objects, remoteDb, dest,
                   pc, dryRun, plan, toDelete, log, last, prev, probe>>

\* a gate that lets every backup through
driftAbortsNever(changes, force) == FALSE

\* BackupFiles: "files have changed in storage since the last backup", and no force
driftAborts(changes, force) == Len(changes) > 0 /\ ~force

\* BackupFiles up to the HeadBucket call: NewDB, reconcile, plan
BackupStart(force, dry) ==
    /\ pc = "idle"
    /\ budget.runs > 0
    /\ dry => budget.dryRuns > 0
    /\ budget' = [budget EXCEPT !.runs = @ - 1, !.dryRuns = IF dry THEN @ - 1 ELSE @]
    /\ dryRun' = dry
    /\ dbExists' = TRUE
    /\ log' = <<>>
    /\ prev' = Summary(last)
    /\ LET changes == downloadAndCompareDB(TRUE, db, remoteDb)
           batches == getFilesToBackup(fs, db, root, <<>>, sizeThreshold)
           \* session: NewDB opens the manifest, and BackupFiles has no call of db.Close
           started == [kind |-> "backup", outcome |-> "running", dryRun |-> dry,
                       forced |-> (Len(changes) > 0 /\ force),
                       changes |-> changes, fs |-> fs, db |-> db, dbExisted |-> dbExists,
                       objects |-> objects, remoteDb |-> remoteDb, session |-> "open"]
       IN  IF driftAborts(changes, force)
           THEN /\ last' = [started EXCEPT !.outcome = "drift"]
                /\ UNCHANGED <<pc, plan, toDelete>>
           ELSE IF GetExistingBatchesFails(db)
           THEN /\ last' = [started EXCEPT !.outcome = "fatal"]
                /\ UNCHANGED <<pc, plan, toDelete>>
           ELSE /\ last' = started
                /\ pc' = "run"
                /\ plan' = batches
                /\ toDelete' = getBatchesToDelete(db, batches)
    /\ UNCHANGED <<root, sizeThreshold, dbFile, otherDbs, fs, db, objects, remoteDb, dest, probe>>

DeleteEvent(b) == [op |-> "delete", key |-> BatchMetaKey(b)]

\* deleteBatch when its calls succeed
deleteBatch(d, objs, b, dry) ==
    IF dry THEN [objects |-> objs, db |-> d, events |-> <<>>]
    ELSE [objects |-> DeleteObject(objs, BatchMetaKey(b)),
          db |-> DeleteBatch(d, b.Path),
          events |-> << DeleteEvent(b) >>]

\* one round of the loop over batchesToDelete
DeleteStep(b) ==
    /\ pc = "run"
    /\ b \in toDelete
    /\ \/ /\ objects' = deleteBatch(db, objects, b, dryRun).objects
          /\ db' = deleteBatch(db, objects, b, dryRun).db
          /\ log' = log \o deleteBatch(db, objects, b, dryRun).events
          /\ toDelete' = toDelete \ {b}
          /\ UNCHANGED <<pc, plan, last, budget>>
       \/ \* DeleteObjects returns an error
          /\ ~dryRun
          /\ Fault("fatal")
          /\ UNCHANGED <<objects, db, log>>
       \/ \* killed between the remote delete and the manifest's DeleteBatch
          /\ ~dryRun
          /\ objects' = DeleteObject(objects, BatchMetaKey(b))
          /\ log' = Append(log, DeleteEvent(b))
          /\ Fault("interrupted")
          /\ UNCHANGED db
    /\ UNCHANGED <<root, sizeThreshold, dbFile, otherDbs, fs, dbExists, remoteDb, dest, dryRun,
                   prev, probe>>

\* a check that looks at the flags of the plan only
anyDirtyFlagsOnly(d, rt, batch) == \E i \in 1..Len(batch.Files) : batch.Files[i].IsDirty

\* backupBatch: "Check if any files in the batch are dirty"
anyDirty(d, rt, batch) ==
    \E i \in 1..Len(batch.Files) :
        \/ batch.Files[i].IsDirty
        \/ fileHasChangedBatch(d, rt, batch.Files[i].Path, batch.Root)

\* an upload that records every member under the path of the first
MarkedBatchFirst(batch) == batch.Files[1].Path

\* backupBatch: the batch a successful upload records for the members
MarkedBatch(batch) == IF Len(batch.Files) > 1 THEN batch.Root ELSE batch.Files[1].Path

PutEvent(batch) == [op |-> "put", key |-> BatchKey(batch)]
MarkEvents(batch) ==
    [i \in 1..Len(batch.Files) |->
        [op |-> "mark", key |-> BatchKey(batch), path |-> batch.Files[i].Path]]

\* a backupBatch that records the members without putting the archive
backupBatchMarksOnly(d, objs, t, rt, batch, dry) ==
    IF ~anyDirty(d, rt, batch) \/ dry
    THEN [objects |-> objs, db |-> d, events |-> <<>>]
    ELSE [objects |-> objs,
          db |-> markFiles(d, t, BatchPaths(batch), MarkedBatch(batch)),
          events |-> MarkEvents(batch)]

\* backupBatch when its calls succeed
backupBatch(d, objs, t, rt, batch, dry) ==
    IF ~anyDirty(d, rt, batch) \/ dry
    THEN [objects |-> objs, db |-> d, events |-> <<>>]
    ELSE [objects |-> PutObject(objs, BatchKey(batch), BatchArchive(t, batch)),
          db |-> markFiles(d, t, BatchPaths(batch), MarkedBatch(batch)),
          events |-> << PutEvent(batch) >> \o MarkEvents(batch)]

\* an upload loop that does not wait for the delete loop
deletePhaseSkipped(remaining) == TRUE

\* BackupFiles: the loop over batchesToDelete ends before the loop over batches begins
deletePhaseDone(remaining) == remaining = {}

\* one round of the loop over batches
UploadStep ==
    /\ pc = "run"
    /\ deletePhaseDone(toDelete)
    /\ plan # <<>>
    /\ LET batch == Head(plan)
           puts == anyDirty(db, root, batch) /\ ~dryRun
       IN
       \/ /\ objects' = backupBatch(db, objects, fs, root, batch, dryRun).objects
          /\ db' = backupBatch(db, objects, fs, root, batch, dryRun).db
          /\ log' = log \o backupBatch(db, objects, fs, root, batch, dryRun).events
          /\ plan' = Tail(plan)
          /\ UNCHANGED <<pc, toDelete, last, budget>>
       \/ \* building the archive or PutObject returns an error
          /\ puts
          /\ Fault("fatal")
          /\ UNCHANGED <<objects, db, log>>
       \/ \* killed between the put and the manifest upserts
          /\ puts
          /\ objects' = PutObject(objects, BatchKey(batch), BatchArchive(fs, batch))
          /\ log' = Append(log, PutEvent(batch))
          /\ Fault("interrupted")
          /\ UNCHANGED db
    /\ UNCHANGED <<root, sizeThreshold, dbFile, otherDbs, fs, dbExists, remoteDb, dest, dryRun,
                   prev, probe>>

\* a persist step that does not wait for the loops
batchesDoneAnyway(remaining, batches) == TRUE

\* BackupFiles: both loops have ended when backupDB is reached
batchesDone(remaining, batches) == remaining = {} /\ batches = <<>>

\* "Back up the DB file to the S3 prefix", and return
PersistStep ==
    /\ pc = "run"
    /\ batchesDone(toDelete, plan)
    /\ \/ /\ dryRun
          /\ Finish("ok")
          /\ UNCHANGED <<remoteDb, otherDbs, log, budget>>
       \/ /\ ~dryRun
          /\ remoteDb' = backupDB(remoteDb, otherDbs, dbFile, db).remoteDb
          /\ otherDbs' = backupDB(remoteDb, otherDbs, dbFile, db).otherDbs
          /\ log' = Append(log, [op |-> "putdb"])
          /\ Finish("ok")
          /\ UNCHANGED budget
       \/ \* PutObject returns an error
          /\ ~dryRun
          /\ Fault("fatal")
          /\ UNCHANGED <<remoteDb, otherDbs, log>>
    /\ UNCHANGED <<root, sizeThreshold, dbFile, fs, dbExists, db, objects, dest, dryRun, prev,
                   probe>>

\* the process is killed between two steps
Interrupt ==
    /\ pc = "run"
    /\ ~dryRun
    /\ Fault("interrupted")
    /\ UNCHANGED <<root, sizeThreshold, dbFile, otherDbs, fs, dbExists, db, objects, remoteDb,
                   dest, dryRun, log, prev, probe>>

\* markFiles when db.MarkFile fails for member k and the error is dropped
RECURSIVE markFilesBut(_, _, _, _, _)
markFilesBut(d, t, files, batch, k) ==
    IF files = <<>> THEN d
    ELSE markFilesBut(IF k = 1 THEN d ELSE markFile(d, t, files[1], batch), t, Tail(files),
                      batch, k - 1)

MarkFailEvent(batch, k) ==
    [op |-> "markfail", key |-> BatchKey(batch), path |-> batch.Files[k].Path]

\* one round of the loop over batches in which the archive is put and db.MarkFile returns
\* an error for member k: a batch of several files drops the error and goes on, a batch of
\* one file ends the invocation with log.Fatalf
MarkFails ==
    /\ pc = "run"
    /\ deletePhaseDone(toDelete)
    /\ plan # <<>>
    /\ budget.faults > 0
    /\ LET batch == Head(plan) IN
       /\ anyDirty(db, root, batch) /\ ~dryRun
       /\ objects' = PutObject(objects, BatchKey(batch), BatchArchive(fs, batch))
       /\ IF Len(batch.Files) > 1
          THEN \E k \in 1..Len(batch.Files) :
                   /\ db' = markFilesBut(db, fs, BatchPaths(batch), MarkedBatch(batch), k)
                   /\ log' = log \o << PutEvent(batch) >>
                                 \o SelectSeq(MarkEvents(batch),
                                              LAMBDA e : e.path # batch.Files[k].Path)
                                 \o << MarkFailEvent(batch, k) >>
                   /\ plan' = Tail(plan)
                   /\ budget' = [budget EXCEPT !.faults = @ - 1]
                   /\ UNCHANGED <<pc, toDelete, last>>
          ELSE /\ log' = log \o << PutEvent(batch), MarkFailEvent(batch, 1) >>
               /\ Fault("fatal")
               /\ UNCHANGED db
    /\ UNCHANGED <<root, sizeThreshold, dbFile, otherDbs, fs, dbExists, remoteDb, dest, dryRun,
                   prev, probe>>

\* a gate that lets every recovery through
recoveryDriftAbortsNever(changes, force) == FALSE

\* RecoverFiles: "files have changed in storage since the last backup or recovery", no force
recoveryDriftAborts(changes, force) == Len(changes) > 0 /\ ~force

\* a downloadDB that leaves an empty manifest file
downloadDBEmpty(remote) == <<>>

\* downloadDB into the directory of dbFile, and the rename onto dbFile: the records of the
\* file that is the local manifest afterwards
downloadDB(remote) == remote.recs

\* RecoverFiles into an empty destination, its manifest file beside the source's
Recover(force) ==
    /\ pc = "idle"
    /\ budget.recoveries > 0
    /\ budget' = [budget EXCEPT !.recoveries = @ - 1]
    /\ log' = <<>>
    /\ prev' = Summary(last)
    /\ LET changes == downloadAndCompareDB(dbExists, db, remoteDb)
           started == [kind |-> "recover", outcome |-> "running", dryRun |-> FALSE,
                       forced |-> (Len(changes) > 0 /\ force),
                       changes |-> changes, fs |-> fs, db |-> db, dbExisted |-> dbExists,
                       objects |-> objects, remoteDb |-> remoteDb, session |-> "none"]
           r == RecoverObjects(<<>>, objects, ListObjects(DOMAIN objects))
       IN  IF recoveryDriftAborts(changes, force)
           THEN /\ last' = [started EXCEPT !.outcome = "drift"]
                /\ dest' = <<>>
                /\ UNCHANGED <<db, dbExists>>
           ELSE IF ~remoteDb.present
           THEN \* "failed to download remote db file"
                /\ last' = [started EXCEPT !.outcome = "error"]
                /\ dest' = <<>>
                /\ UNCHANGED <<db, dbExists>>
           ELSE /\ db' = downloadDB(remoteDb)
                /\ dbExists' = TRUE
                /\ dest' = r.tree
                /\ last' = [started EXCEPT !.outcome = IF r.err THEN "fatal" ELSE "ok"]
    /\ UNCHANGED <<root, sizeThreshold, dbFile, otherDbs, fs, objects, remoteDb, pc, dryRun, plan,
                   toDelete, probe>>

Next ==
    \/ \E t \in ProtocolTrees : EditTree(t)
    \/ \E force \in BOOLEAN : BackupStart(force, FALSE)
    \/ \E b \in toDelete : DeleteStep(b)
    \/ UploadStep
    \/ PersistStep
    \/ Interrupt

Spec == Init /\ [][Next]_vars

\* behaviours of backups that run to their end, a change of the tree, and a recovery
InitRecover ==
    /\ InitSource
    /\ InitProtocol
    /\ budget = [runs |-> MaxRunsBeforeRecovery, dryRuns |-> 0, edits |-> MaxEdits, faults |-> 0,
                 recoveries |-> 1, losses |-> 0]

NextRecover ==
    \/ \E t \in ProtocolTrees : EditTree(t)
    \/ \E force \in BOOLEAN : BackupStart(force, FALSE)
    \/ \E b \in toDelete : DeleteStep(b)
    \/ UploadStep
    \/ PersistStep
    \/ \E force \in BOOLEAN : Recover(force)

SpecRecover == InitRecover /\ [][NextRecover]_vars

\* an object under the prefix that no backup put: its key does not end in .tar.gz and its
\* body is no archive
ForeignKey == <<"README">>
ForeignBytes == <<7>>

\* somebody else puts the object under the prefix, between two invocations
PutForeign ==
    /\ pc = "idle"
    /\ ForeignKey \notin DOMAIN objects
    /\ objects' = PutObject(objects, ForeignKey, RawBody(ForeignBytes))
    /\ UNCHANGED <<root, sizeThreshold, dbFile, otherDbs, fs, dbExists, db, remoteDb, dest, pc,
                   dryRun, plan, toDelete, log, last, prev, budget, probe>>

\* behaviours of one backup of a tree, a foreign object and a recovery
InitForeign ==
    /\ InitSource
    /\ InitProtocol
    /\ budget = [runs |-> MaxRunsForeign, dryRuns |-> 0, edits |-> 0, faults |-> 0,
                 recoveries |-> 1, losses |-> 0]

NextForeign ==
    \/ \E force \in BOOLEAN : BackupStart(force, FALSE)
    \/ UploadStep
    \/ PersistStep
    \/ PutForeign
    \/ \E force \in BOOLEAN : Recover(force)

SpecForeign == InitForeign /\ [][NextForeign]_vars

\* one round of the loop over batches in which another process writes file f over member k
\* after backupFilesToArchive has read the members and before markFile stats and hashes them
RacedUpload(k, f) ==
    /\ pc = "run"
    /\ deletePhaseDone(toDelete)
    /\ plan # <<>>
    /\ budget.edits > 0
    /\ LET batch == Head(plan) IN
       /\ anyDirty(db, root, batch) /\ ~dryRun
       /\ k \in 1..Len(batch.Files)
       /\ f # fs[batch.Files[k].Path]
       /\ objects' = PutObject(objects, BatchKey(batch), BatchArchive(fs, batch))
       /\ fs' = SetFile(fs, batch.Files[k].Path, f)
       /\ db' = markFiles(db, fs', BatchPaths(batch), MarkedBatch(batch))
       /\ log' = log \o << PutEvent(batch) >> \o MarkEvents(batch)
       /\ plan' = Tail(plan)
    /\ budget' = [budget EXCEPT !.edits = @ - 1]
    /\ UNCHANGED <<root, sizeThreshold, dbFile, otherDbs, dbExists, remoteDb, dest, pc, dryRun,
                   toDelete, last, prev, probe>>

\* behaviours of backups that run to their end while the tree may change, between two
\* backups or under a running one
InitRace ==
    /\ InitSource
    /\ InitProtocol
    /\ budget = [runs |-> MaxRunsBeforeRecovery, dryRuns |-> 0, edits |-> MaxEdits, faults |-> 0,
                 recoveries |-> 0, losses |-> 0]

NextRace ==
    \/ \E t \in ProtocolTrees : EditTree(t)
    \/ \E force \in BOOLEAN : BackupStart(force, FALSE)
    \/ \E b \in toDelete : DeleteStep(b)
    \/ UploadStep
    \/ PersistStep
    \/ \E k \in 1..MaxBatchFiles, f \in ProtocolFiles : RacedUpload(k, f)

SpecRace == InitRace /\ [][NextRace]_vars

\* behaviours of backups in which one call may fail, db.MarkFile included
InitMarkFault ==
    /\ InitSource
    /\ InitProtocol
    /\ budget = [runs |-> MaxRunsBeforeRecovery, dryRuns |-> 0, edits |-> MaxEdits,
                 faults |-> MaxFaults, recoveries |-> 0, losses |-> 0]

NextMarkFault ==
    \/ \E t \in ProtocolTrees : EditTree(t)
    \/ \E force \in BOOLEAN : BackupStart(force, FALSE)
    \/ \E b \in toDelete : DeleteStep(b)
    \/ UploadStep
    \/ PersistStep
    \/ MarkFails

SpecMarkFault == InitMarkFault /\ [][NextMarkFault]_vars

----------------------------------------------------------------------------
(* The local manifest file: its name, its absence, dry runs *)

\* the local manifest file is gone before the next invocation: it was removed, or the
\* invocation runs on another machine; the history keeps the event
LoseManifest ==
    /\ pc = "idle"
    /\ dbExists
    /\ budget.losses > 0
    /\ dbExists' = FALSE
    /\ db' = <<>>
    /\ budget' = [budget EXCEPT !.losses = @ - 1]
    /\ log' = <<>>
    /\ prev' = Summary(last)
    /\ last' = [kind |-> "loss", outcome |-> "ok", dryRun |-> FALSE, forced |-> FALSE,
                changes |-> <<>>, fs |-> fs, db |-> db, dbExisted |-> dbExists,
                objects |-> objects, remoteDb |-> remoteDb, session |-> "none"]
    /\ UNCHANGED <<root, sizeThreshold, dbFile, otherDbs, fs, objects, remoteDb, dest, pc, dryRun,
                   plan, toDelete, probe>>

\* the source trees of these behaviours: every file small and old
ManifestTrees == { t \in ProtocolTrees : \A p \in DOMAIN t : t[p].content = <<1>> }

\* behaviours of backups, dry or not, under either name of the manifest file, a change of
\* the tree, a loss of the manifest file, and a recovery
InitManifest ==
    /\ root \in Roots
    /\ sizeThreshold \in ProtocolThresholds
    /\ fs \in ManifestTrees
    /\ dbFile \in DbFiles
    /\ probe = NoProbe
    /\ InitProtocol
    /\ budget = [runs |-> MaxRunsManifest, dryRuns |-> MaxDryRuns, edits |-> MaxEdits,
                 faults |-> 0, recoveries |-> 1, losses |-> MaxLosses]

NextManifest ==
    \/ \E t \in ManifestTrees : EditTree(t)
    \/ \E force, dry \in BOOLEAN : BackupStart(force, dry)
    \/ \E b \in toDelete : DeleteStep(b)
    \/ UploadStep
    \/ PersistStep
    \/ LoseManifest
    \/ \E force \in BOOLEAN : Recover(force)

SpecManifest == InitManifest /\ [][NextManifest]_vars

----------------------------------------------------------------------------
(* downloadAndCompareDB on its own *)

ProbePaths == { <<"a">>, <<"d">> }
ProbeRecords == [ModTime : {10000, 20000}, Hash : Contents, Batch : { <<>>, <<"a">> }]
ProbeManifests == UNION { [S -> ProbeRecords] : S \in SUBSET ProbePaths }

InitCompare ==
    /\ root = <<>>
    /\ sizeThreshold = 8
    /\ fs = <<>>
    /\ dbFile = DbFileName(BackupName)
    /\ InitProtocol
    /\ budget = [runs |-> 0, dryRuns |-> 0, edits |-> 0, faults |-> 0, recoveries |-> 0,
                 losses |-> 0]
    /\ probe \in [fn : {"downloadAndCompareDB"}, localExists : BOOLEAN, local : ProbeManifests,
                  remote : [present : BOOLEAN, recs : ProbeManifests],
                  done : {FALSE}, out : {<<>>}]

Compare ==
    /\ probe.fn = "downloadAndCompareDB"
    /\ ~probe.done
    /\ probe' = [probe EXCEPT !.done = TRUE,
                              !.out = downloadAndCompareDB(probe.localExists, probe.local,
                                                           probe.remote)]
    /\ UNCHANGED <<root, sizeThreshold, dbFile, otherDbs, fs, dbExists, db, objects, remoteDb,
                   dest, pc, dryRun, plan, toDelete, log, last, prev, budget>>

NextCompare == Compare

SpecCompare == InitCompare /\ [][NextCompare]_vars

----------------------------------------------------------------------------
(* getFilesToBackup on its own *)

\* up to three entries in the root, "b" a file or a directory of one file, "d" a file or a
\* directory of up to three files, one of them named "_files"
PlanPaths == Paths \cup { <<"b">>, <<"b", "a">>, <<"d", "_files">> }
\* files of one, two and three bytes
PlanContents == Contents \cup { <<3, 3, 3>> }
PlanFileSet == [content : PlanContents, mtime : {10000}]
PlanTrees == { t \in UNION { [S -> PlanFileSet] : S \in SUBSET PlanPaths } : IsTree(t) }
PlanThresholds == 0..MaxThreshold

InitPlan ==
    /\ root = <<>>
    /\ sizeThreshold = 8
    /\ fs = <<>>
    /\ dbFile = DbFileName(BackupName)
    /\ InitProtocol
    /\ budget = [runs |-> 0, dryRuns |-> 0, edits |-> 0, faults |-> 0, recoveries |-> 0,
                 losses |-> 0]
    /\ probe \in [fn : {"getFilesToBackup"}, tree : PlanTrees, root : Roots,
                  T : PlanThresholds, done : {FALSE}, out : {<<>>}]

\* the plan of a first backup of the tree: the manifest is empty
PlanTree ==
    /\ probe.fn = "getFilesToBackup"
    /\ ~probe.done
    /\ probe' = [probe EXCEPT !.done = TRUE,
                              !.out = getFilesToBackup(probe.tree, <<>>, probe.root, <<>>,
                                                       probe.T)]
    /\ UNCHANGED <<root, sizeThreshold, dbFile, otherDbs, fs, dbExists, db, objects, remoteDb,
                   dest, pc, dryRun, plan, toDelete, log, last, prev, budget>>

NextPlan == PlanTree

\* trees three directories deep, with files named backup.db next to the others
DeepPaths == { <<"a">>, <<"backup.db">>, <<"b", "a", "a">>, <<"d", "a">>, <<"d", "backup.db">>,
               <<"d", "d", "a">>, <<"d", "d", "b">> }
DeepFileSet == [content : Contents, mtime : {10000}]
DeepTrees == { t \in UNION { [S -> DeepFileSet] : S \in SUBSET DeepPaths } : IsTree(t) }

InitPlanDeep ==
    /\ root = <<>>
    /\ sizeThreshold = 8
    /\ fs = <<>>
    /\ dbFile = DbFileName(BackupName)
    /\ InitProtocol
    /\ budget = [runs |-> 0, dryRuns |-> 0, edits |-> 0, faults |-> 0, recoveries |-> 0,
                 losses |-> 0]
    /\ probe \in [fn : {"getFilesToBackup"}, tree : DeepTrees, root : Roots,
                  T : PlanThresholds, done : {FALSE}, out : {<<>>}]

SpecPlanDeep == InitPlanDeep /\ [][NextPlan]_vars

\* the tree of TestRoundTrip_SomeMultiFileBatches without subdir-2: each path with its size
ScenarioThreshold == 1000
ScenarioSizes ==
    <<"a.txt">> :> 5 @@ <<"b.txt">> :> 9 @@ <<"c.txt">> :> 25
    @@ <<"subdir-1", "one", "two", "three", "a.txt">> :> 5
    @@ <<"subdir-1", "four", "five", "six", "b.txt">> :> 9
    @@ <<"subdir-1", "four", "five", "six", "big.txt">> :> 2000
    @@ <<"subdir-1", "seven", "eight", "nine", "c.txt">> :> 25
\* createTestFile(path, size): a file of size bytes
createTestFile(size) == [content |-> [i \in 1..size |-> 1], mtime |-> 10000]
ScenarioTree == [p \in DOMAIN ScenarioSizes |-> createTestFile(ScenarioSizes[p])]
\* the tree and the trees with some of its files missing
ScenarioTrees == { [p \in S |-> ScenarioTree[p]] : S \in SUBSET DOMAIN ScenarioSizes }
\* thresholds below the small files together, the test's, and above the whole tree
ScenarioThresholds == { 30, ScenarioThreshold, 3000 }

InitScenario ==
    /\ root = <<>>
    /\ sizeThreshold = ScenarioThreshold
    /\ fs = <<>>
    /\ dbFile = DbFileName(BackupName)
    /\ InitProtocol
    /\ budget = [runs |-> 0, dryRuns |-> 0, edits |-> 0, faults |-> 0, recoveries |-> 0,
                 losses |-> 0]
    /\ probe \in [fn : {"getFilesToBackup"}, tree : ScenarioTrees, root : {<<>>},
                  T : ScenarioThresholds, done : {FALSE}, out : {<<>>}]

SpecScenario == InitScenario /\ [][NextPlan]_vars

----------------------------------------------------------------------------
(* GetExistingBatches on its own *)

\* manifests of up to four records, each in the batch ".", "a", "d" or "d/a"
BatchValues == { <<>>, <<"a">>, <<"d">>, <<"d", "a">> }
BatchRecords == [ModTime : { FormatModTime(10000) }, Hash : { <<1>> }, Batch : BatchValues]
BatchManifests == UNION { [S -> BatchRecords] : S \in SUBSET Paths }

InitBatches ==
    /\ root = <<>>
    /\ sizeThreshold = 8
    /\ fs = <<>>
    /\ dbFile = DbFileName(BackupName)
    /\ InitProtocol
    /\ budget = [runs |-> 0, dryRuns |-> 0, edits |-> 0, faults |-> 0, recoveries |-> 0,
                 losses |-> 0]
    /\ probe \in [fn : {"GetExistingBatches"}, recs : BatchManifests, done : {FALSE},
                  out : {[err |-> FALSE, batches |-> {}]}]

\* GetExistingBatches(false): the error, or the batches
ReadBatches ==
    /\ probe.fn = "GetExistingBatches"
    /\ ~probe.done
    /\ probe' = [probe EXCEPT !.done = TRUE,
                              !.out = IF GetExistingBatchesFails(probe.recs)
                                      THEN [err |-> TRUE, batches |-> {}]
                                      ELSE [err |-> FALSE,
                                            batches |-> GetExistingBatches(probe.recs)]]
    /\ UNCHANGED <<root, sizeThreshold, dbFile, otherDbs, fs, dbExists, db, objects, remoteDb,
                   dest, pc, dryRun, plan, toDelete, log, last, prev, budget>>

NextBatches == ReadBatches
SpecBatches == InitBatches /\ [][NextBatches]_vars

SpecPlan == InitPlan /\ [][NextPlan]_vars

----------------------------------------------------------------------------
(* doesFileNeedBackup on its own *)

\* mod-times on both sides of a second and within one
DetectTimes == Times \cup { 19999 }
DetectFiles == [content : Contents, mtime : DetectTimes]
\* the record of the path, if the manifest has one: its mod_time is kept to the millisecond
DetectRecords ==
    { NoRows } \cup [ModTime : { FormatModTime(t) : t \in DetectTimes }, Hash : Contents,
                     Batch : { <<>>, <<"a">> }]

InitDetect ==
    /\ root = <<>>
    /\ sizeThreshold = 8
    /\ fs = <<>>
    /\ dbFile = DbFileName(BackupName)
    /\ InitProtocol
    /\ budget = [runs |-> 0, dryRuns |-> 0, edits |-> 0, faults |-> 0, recoveries |-> 0,
                 losses |-> 0]
    /\ probe \in [fn : {"doesFileNeedBackup"}, path : ProbePaths, rec : DetectRecords,
                  file : DetectFiles, done : {FALSE}, out : {<<>>}]

\* the manifest of the probe: the record under the path, or nothing
DetectManifest == IF probe.rec = NoRows THEN <<>> ELSE [p \in {probe.path} |-> probe.rec]

Detect ==
    /\ probe.fn = "doesFileNeedBackup"
    /\ ~probe.done
    /\ probe' = [probe EXCEPT !.done = TRUE,
                              !.out = doesFileNeedBackup(DetectManifest, probe.path, probe.file)]
    /\ UNCHANGED <<root, sizeThreshold, dbFile, otherDbs, fs, dbExists, db, objects, remoteDb,
                   dest, pc, dryRun, plan, toDelete, log, last, prev, budget>>

NextDetect == Detect

SpecDetect == InitDetect /\ [][NextDetect]_vars

----------------------------------------------------------------------------
(* Properties *)

Ops(kind) == { i \in 1..Len(log) : log[i].op = kind }

\* the last invocation is a backup that returned nil and was no dry run
BackupSucceeded == last.kind = "backup" /\ last.outcome = "ok" /\ ~last.dryRun
\* the invocation before the last one was such a backup, and the tree is as it was then
AfterSuccessfulBackup ==
    prev.kind = "backup" /\ prev.outcome = "ok" /\ ~prev.dryRun /\ prev.fs = fs

SameFile(f, g) ==
    f.content = g.content /\ TruncateSecond(f.mtime) = TruncateSecond(g.mtime)

\* C1: after a successful backup that was no dry run and a recovery into an empty
\* destination, every file of the source tree not named backup.db is in the destination at
\* the same relative path, with the same bytes and the same mod-time to the second
C1_RoundTrip ==
    (last.kind = "recover" /\ AfterSuccessfulBackup)
        => \A p \in DOMAIN fs :
              doBackupFile(Last(p)) => (p \in DOMAIN dest /\ SameFile(dest[p], fs[p]))

\* C2: after successful backups with changes of the tree between them, a recovery into an
\* empty destination that returns nil leaves no file whose path is not a file of the tree
\* of the last backup
C2_NoStaleFiles ==
    (last.kind = "recover" /\ last.outcome = "ok" /\ AfterSuccessfulBackup)
        => DOMAIN dest \subseteq DOMAIN fs

\* C3: a successful backup run again with the same arguments over an unchanged tree puts no
\* batch archive and leaves every manifest record as the first run left it
C3_SecondRunIdle ==
    (BackupSucceeded /\ prev.kind = "backup" /\ prev.outcome = "ok" /\ ~prev.dryRun
        /\ prev.fs = last.fs)
        => (Ops("put") = {} /\ db = last.db)

\* the keys derived from the batches of a manifest
ManifestKeys(d) == { BatchMetaKey(b) : b \in GetExistingBatches(d) }

\* C4: after every successful backup that was no dry run (no call has failed and no run was
\* killed before it), the object keys under the prefix are exactly the keys derived from
\* the batches of the manifest
C4_KeysMatchManifest ==
    (BackupSucceeded /\ budget.faults = MaxFaults) => DOMAIN objects = ManifestKeys(db)

\* C5: a backup whose reconcile step finds differences returns an error before planning when
\* force is unset, having put or deleted no object and changed no manifest record; with
\* force set it goes on to plan, delete, upload and persist
C5_DriftGate ==
    (last.kind = "backup" /\ Len(last.changes) > 0)
        => IF last.forced
           THEN /\ last.outcome # "drift"
                /\ last.outcome = "ok" => (Ops("putdb") = {Len(log)} /\ remoteDb.recs = db)
           ELSE /\ last.outcome = "drift"
                /\ pc = "idle"
                /\ log = <<>>
                /\ db = last.db
                /\ objects = last.objects
                /\ remoteDb = last.remoteDb

C5_Witness ==
    /\ last.kind = "backup" /\ last.outcome = "drift"
    /\ Len(last.changes) > 0 /\ ~last.forced
    /\ DOMAIN last.objects # {}

ManifestsDiffer(l, r) ==
    \E p \in DOMAIN l \cup DOMAIN r :
        \/ p \notin DOMAIN l
        \/ p \notin DOMAIN r
        \/ l[p].ModTime # r[p].ModTime
        \/ l[p].Hash # r[p].Hash
        \/ l[p].Batch # r[p].Batch

Compared == probe.fn = "downloadAndCompareDB" /\ probe.done

\* C6: when the local manifest file and the remote manifest both exist, the change list of
\* downloadAndCompareDB is non-empty exactly when some path is in only one manifest or has a
\* different mod_time, hash or batch in the two
C6_CompareIff ==
    (Compared /\ probe.localExists /\ probe.remote.present)
        => (Len(probe.out) > 0 <=> ManifestsDiffer(probe.local, probe.remote.recs))

C6_Witness ==
    /\ Compared /\ probe.localExists /\ probe.remote.present
    /\ Len(probe.out) > 0
    /\ DOMAIN probe.local # DOMAIN probe.remote.recs
    /\ DOMAIN probe.local \subseteq DOMAIN probe.remote.recs
    /\ \A p \in DOMAIN probe.local : probe.local[p] = probe.remote.recs[p]

\* the last invocation is a backup of the tree that the backup before it was killed on
RerunAfterInterrupt ==
    /\ last.kind = "backup" /\ ~last.forced
    /\ prev.kind = "backup" /\ prev.outcome = "interrupted" /\ prev.fs = last.fs

\* the archives, the remote manifest and the local manifest all describe tree t
ConvergedTo(t) ==
    LET r == RecoverObjects(<<>>, objects, ListObjects(DOMAIN objects))
    IN  /\ remoteDb.present /\ remoteDb.recs = db
        /\ DOMAIN db = DOMAIN t
        /\ ~r.err
        /\ DOMAIN r.tree = DOMAIN t
        /\ \A p \in DOMAIN t : SameFile(r.tree[p], t[p])

\* C7: the backup run again after an interrupted run, force unset and the tree unchanged,
\* is not aborted for drift (it completes)
C7_RerunNotAborted == RerunAfterInterrupt => last.outcome # "drift"

\* the batches the last backup planned and the batches it retired
StartPlan == getFilesToBackup(last.fs, last.db, root, <<>>, sizeThreshold)
Retired == getBatchesToDelete(last.db, StartPlan)

\* C8: within one backup every retired batch is deleted from the remote and from the
\* manifest before the first planned batch is put, and no delete follows a put
C8_DeletesBeforeUploads ==
    last.kind = "backup"
        => /\ \A i \in Ops("delete"), j \in Ops("put") : i < j
           /\ Ops("put") # {}
                => \A b \in Retired :
                      /\ \E i \in Ops("delete") : log[i].key = BatchMetaKey(b)
                      /\ BatchMetaKey(b) \notin DOMAIN objects \/ BatchMetaKey(b) \in
                            { log[j].key : j \in Ops("put") }
                      /\ GetFilesInBatch(db, b.Path) = {}

C8_Witness ==
    /\ last.kind = "backup"
    /\ Ops("delete") # {}
    /\ Ops("put") # {}

\* the key of the archive a manifest record points to
RecordKey(p, rec) == IF rec.Batch = p THEN FileArchiveName(p) ELSE DirArchiveName(rec.Batch)

ChangedRecords == { p \in DOMAIN db : p \notin DOMAIN last.db \/ db[p] # last.db[p] }

\* C9: a member's manifest record is inserted or replaced only after the put of its batch's
\* archive has succeeded; when the build or the put fails no member's record changes
C9_MarkAfterPut ==
    last.kind = "backup"
        => /\ \A j \in Ops("mark") : \E i \in Ops("put") : i < j /\ log[i].key = log[j].key
           /\ \A p \in ChangedRecords :
                 /\ \E i \in Ops("put") : log[i].key = RecordKey(p, db[p])
                 /\ RecordKey(p, db[p]) \in DOMAIN objects

C9_Witness ==
    /\ last.kind = "backup" /\ last.outcome = "fatal"
    /\ Ops("put") # {}
    /\ ChangedRecords # {}
    /\ \E p \in DOMAIN last.fs : p \notin DOMAIN db

\* every retired batch was deleted and every planned file is recorded under its batch
AllBatchesDone ==
    /\ \A b \in Retired : \E i \in Ops("delete") : log[i].key = BatchMetaKey(b)
    /\ \A k \in 1..Len(StartPlan) : \A i \in 1..Len(StartPlan[k].Files) :
          LET path == StartPlan[k].Files[i].Path
          IN  path \in DOMAIN db /\ db[path].Batch = MarkedBatch(StartPlan[k])

C11_DryRunWritesNothing ==
    (last.kind = "backup" /\ last.dryRun) =>
        /\ objects = last.objects
        /\ db = last.db
        /\ remoteDb = last.remoteDb
        /\ log = <<>>
        /\ dbExists = last.dbExisted

\* the invocation before the last one was a backup that returned nil and was no dry run
FollowsSuccessfulBackup == prev.kind = "backup" /\ prev.outcome = "ok" /\ ~prev.dryRun

\* C12: when the local manifest file is named <name>.db, a successful backup that was no dry
\* run leaves the remote manifest with exactly the records of the local manifest, and the
\* backup or recovery that follows it finds no difference and is not aborted for drift
C12_RemoteManifestIsLocal ==
    dbFile = DbFileName(BackupName) =>
        /\ BackupSucceeded => remoteDb = [present |-> TRUE, recs |-> db]
        /\ (FollowsSuccessfulBackup /\ last.kind \in {"backup", "recover"}) =>
               (last.changes = <<>> /\ last.outcome # "drift")

C12_Witness ==
    /\ dbFile = DbFileName(BackupName)
    /\ FollowsSuccessfulBackup
    /\ last.kind = "backup" /\ ~last.forced /\ last.outcome = "ok"
    /\ last.db # <<>>
    /\ last.remoteDb.recs = last.db

RecoverySucceeded == last.kind = "recover" /\ last.outcome = "ok"

\* C13: after a successful recovery the local manifest file exists and holds exactly the
\* records of the remote manifest, whatever it held before, and the backup that follows
\* the recovery finds no difference between the two
C13_LocalManifestIsRemote ==
    /\ RecoverySucceeded => (dbExists /\ db = remoteDb.recs)
    /\ (prev.kind = "recover" /\ prev.outcome = "ok" /\ last.kind = "backup") =>
           (last.changes = <<>> /\ last.outcome # "drift")

\* a forced recovery has replaced a local manifest that differed from the remote one
C13_Witness ==
    /\ RecoverySucceeded
    /\ last.dbExisted /\ last.db # remoteDb.recs
    /\ remoteDb.recs # <<>>
    /\ db = remoteDb.recs

\* the last invocation is a recovery that began with a local manifest file whose records
\* differ from those of the remote manifest
RecoveryWithDrift ==
    /\ last.kind = "recover"
    /\ last.dbExisted /\ last.remoteDb.present
    /\ ManifestsDiffer(last.db, last.remoteDb.recs)

\* C14: a recovery that finds the local manifest different from the remote one fails, when
\* force is unset, with the local manifest as it was and nothing in the destination; when
\* force is set it goes on, replaces the local manifest and downloads the objects
C14_RecoveryDriftGate ==
    RecoveryWithDrift =>
        IF last.forced
        THEN /\ last.outcome \in {"ok", "fatal"}
             /\ db = last.remoteDb.recs
             /\ (objects # <<>> /\ last.outcome = "ok") => dest # <<>>
        ELSE /\ last.outcome = "drift"
             /\ last.changes # <<>>
             /\ db = last.db /\ dbExists
             /\ dest = <<>>

\* a recovery without force met a drifted manifest while the remote held objects
C14_Witness ==
    /\ RecoveryWithDrift /\ ~last.forced
    /\ last.outcome = "drift"
    /\ objects # <<>>

\* the plan of a backup whose root is the recovery destination and whose manifest is the
\* one the recovery wrote
DestPlan == getFilesToBackup(dest, db, root, <<>>, sizeThreshold)

\* C15: after a successful backup and a successful recovery of it into an empty
\* destination, a backup of the destination with the recovered manifest finds no file
\* added or changed and no batch to upload
C15_RecoveredTreeIsClean ==
    (RecoverySucceeded /\ FollowsSuccessfulBackup) =>
        \A i \in 1..Len(DestPlan) :
            /\ \A j \in 1..Len(DestPlan[i].Files) : ~DestPlan[i].Files[j].IsDirty
            /\ ~anyDirty(db, root, DestPlan[i])

\* C16: a backup that begins when no local manifest file exists is a fresh backup: its
\* reconcile step reports no difference and it is not aborted for drift, whatever the
\* remote manifest holds
C16_FreshBackupNoDrift ==
    (last.kind = "backup" /\ ~last.dbExisted) =>
        (last.changes = <<>> /\ last.outcome # "drift")

\* C17: whatever the path of the local manifest file, a successful backup that was no dry
\* run has put the manifest at <prefix_base>/<name>.db.gz, the key downloadDB reads, and
\* at no other key
C17_ManifestKey ==
    BackupSucceeded =>
        /\ remoteDb.present /\ remoteDb.recs = db
        /\ DOMAIN otherDbs = {}

Planned == probe.fn = "getFilesToBackup" /\ probe.done

\* the sizes of the files of a batch, added up
FilesSize(batch) == sumSizes([j \in 1..Len(batch.Files) |-> [Size |-> batch.Files[j].FileSize]])

\* C18: for every tree and every size threshold T, every planned batch of two or more
\* files has a total size of at most T, by its TotalSize and by the sizes of its files
C18_MultiFileBatchFits ==
    Planned =>
        \A i \in 1..Len(probe.out) :
            Len(probe.out[i].Files) >= 2 =>
                (probe.out[i].TotalSize <= probe.T /\ FilesSize(probe.out[i]) <= probe.T)

\* a plan with a batch of two files that fills the threshold and a lone file above it
C18_Witness ==
    /\ Planned
    /\ \E i \in 1..Len(probe.out) :
           Len(probe.out[i].Files) >= 2 /\ FilesSize(probe.out[i]) = probe.T
    /\ \E i \in 1..Len(probe.out) :
           Len(probe.out[i].Files) = 1 /\ FilesSize(probe.out[i]) > probe.T

BatchPathSet(batch) == { batch.Files[j].Path : j \in 1..Len(batch.Files) }

\* no path is in two batches of the plan, or twice in one
DisjointBatches(batches) ==
    /\ \A i, j \in 1..Len(batches) :
           i # j => BatchPathSet(batches[i]) \cap BatchPathSet(batches[j]) = {}
    /\ \A i \in 1..Len(batches) : Cardinality(BatchPathSet(batches[i])) = Len(batches[i].Files)

\* every record of the manifest is in exactly one group of GROUP BY batch
OneGroupPerPath(d) ==
    \A p \in DOMAIN d :
        Cardinality({ g \in BatchGroups(d) : p \in GetFilesInBatch(d, g.batch) }) = 1

\* C20: no file path belongs to two batches: the batches a backup plans have disjoint file
\* lists, and in the local manifest and in the persisted one each path is in exactly one
\* batch group
C20_OneBatchPerPath ==
    /\ last.kind = "backup" => DisjointBatches(StartPlan)
    /\ OneGroupPerPath(db)
    /\ OneGroupPerPath(remoteDb.recs)

\* a plan of several batches, one of them of several files, after a manifest of several
\* batch groups was persisted
C20_Witness ==
    /\ last.kind = "backup"
    /\ Len(StartPlan) >= 2
    /\ \E i \in 1..Len(StartPlan) : Len(StartPlan[i].Files) >= 2
    /\ remoteDb.present
    /\ Cardinality(BatchGroups(remoteDb.recs)) >= 2

\* the step is a round of the upload loop that puts the archive of the batch at the head
\* of the plan
Uploads ==
    /\ pc = "run" /\ plan # <<>> /\ plan' = Tail(plan)
    /\ Len(log') > Len(log) /\ log'[Len(log) + 1] = PutEvent(Head(plan))

\* a step of a backup that runs to its end: an upload leaves each member of its batch with
\* a record whose batch is the member's own path exactly when the batch holds one file,
\* and only an upload of a batch that holds the path creates or changes a record
LoneBatchStep ==
    /\ Uploads =>
          \A p \in BatchPathSet(Head(plan)) :
              /\ p \in DOMAIN db'
              /\ db'[p].Batch = p <=> Len(Head(plan).Files) = 1
    /\ last'.kind = "backup" =>
          \A p \in DOMAIN db' :
              (p \notin DOMAIN db \/ db'[p] # db[p]) =>
                  (Uploads /\ p \in BatchPathSet(Head(plan)))

\* C19: in every sequence of backups that succeed, the record of a path has batch equal to
\* the path if and only if the most recent upload of the file was a batch of that file
\* alone: each upload sets the batch of its members so, and nothing else writes a record
C19_LoneBatchIffOwnPath == [][LoneBatchStep]_vars

\* a file that was recorded under a batch of several files has been uploaded again alone,
\* beside a file recorded under a batch of several files
C19_Witness ==
    /\ last.kind = "backup" /\ last.outcome = "ok"
    /\ \E p \in DOMAIN db \cap DOMAIN last.db : last.db[p].Batch # p /\ db[p].Batch = p
    /\ \E i \in Ops("mark") : db[log[i].path].Batch = log[i].path
    /\ \E q \in DOMAIN db : db[q].Batch # q

\* C21: for every root, the record markFile wrote for a file is the record the next
\* backup's lookups find: under the key doesFileNeedBackup is given the file is not new,
\* and under the key fileHasChangedBatch builds the file is in the batch it was recorded in
C21_RecordFound ==
    BackupSucceeded =>
        \A p \in DOMAIN db \cap DOMAIN last.fs :
            /\ doesFileNeedBackup(db, Join(root, p), last.fs[p]).reason # "New"
            /\ ~fileHasChangedBatch(db, root, p, db[p].Batch)

\* the step is a round of the upload loop that returns without an error
UploadRound == pc = "run" /\ plan # <<>> /\ plan' = Tail(plan) /\ pc' = "run"

\* every member of the batch is clean in the plan and recorded under the batch's root
CleanAndInPlace(d, batch) ==
    \A i \in 1..Len(batch.Files) :
        /\ ~batch.Files[i].IsDirty
        /\ batch.Files[i].Path \in DOMAIN d
        /\ d[batch.Files[i].Path].Batch = batch.Root

\* a round of the upload loop of a backup that is no dry run
SkipStep ==
    (UploadRound /\ ~dryRun) =>
        IF CleanAndInPlace(db, Head(plan))
        THEN objects' = objects /\ db' = db /\ log' = log
        ELSE /\ Len(log') > Len(log) /\ log'[Len(log) + 1] = PutEvent(Head(plan))
             /\ BatchKey(Head(plan)) \in DOMAIN objects'
             /\ objects'[BatchKey(Head(plan))] = BatchArchive(fs, Head(plan))
             /\ \A p \in BatchPathSet(Head(plan)) : p \in DOMAIN db'

\* C22: in the upload phase of a backup that is no dry run a planned batch is skipped, with
\* no put and no upsert, exactly when every member has IsDirty false and a record whose
\* batch is the batch's root; in every other case the batch is put and its members recorded
C22_SkipIffClean == [][SkipStep]_vars

\* a batch whose members were all clean in the plan has been put, because they were
\* recorded under another batch
C22_Witness ==
    /\ BackupSucceeded
    /\ \E i \in 1..Len(StartPlan) :
          /\ \A j \in 1..Len(StartPlan[i].Files) : ~StartPlan[i].Files[j].IsDirty
          /\ \E k \in Ops("put") : log[k] = PutEvent(StartPlan[i])

Detected == probe.fn = "doesFileNeedBackup" /\ probe.done

SameSecond(t, u) == t \div TicksPerSecond = u \div TicksPerSecond

\* C23: the change detector returns (true, Add, New) when the manifest has no record of the
\* file; otherwise (false, None, None) when the mod-times are equal to the second and the
\* hashes are equal; otherwise (true, Change, Hash) when the hashes differ; otherwise
\* (true, Change, ModTime)
C23_Detector ==
    Detected =>
        probe.out =
            IF probe.rec = NoRows
            THEN [dirty |-> TRUE, op |-> "Add", reason |-> "New"]
            ELSE IF SameSecond(probe.file.mtime, probe.rec.ModTime)
                    /\ probe.file.content = probe.rec.Hash
            THEN [dirty |-> FALSE, op |-> "None", reason |-> "None"]
            ELSE IF probe.file.content # probe.rec.Hash
            THEN [dirty |-> TRUE, op |-> "Change", reason |-> "Hash"]
            ELSE [dirty |-> TRUE, op |-> "Change", reason |-> "ModTime"]

\* a file with the recorded hash whose mod-time is a tenth of a millisecond before the
\* recorded one, in the second before
C23_Witness ==
    /\ Detected
    /\ probe.rec # NoRows
    /\ probe.file.content = probe.rec.Hash
    /\ probe.file.mtime < probe.rec.ModTime
    /\ probe.rec.ModTime - probe.file.mtime = 1
    /\ probe.out.reason = "ModTime"

\* C24: after a successful backup that was no dry run the paths recorded in the manifest
\* are the file paths of the run's plan: no record remains of a file that has left the tree
C24_RecordsMatchPlan == BackupSucceeded => DOMAIN db = PlanFiles(StartPlan)

\* C25: after backups that succeed, whatever the changes of the tree between them, every
\* batch group of the manifest is all single-file or all multi-file, so that
\* GetExistingBatches does not fail on a manifest the tool wrote
C25_GroupsConsistent == BackupSucceeded => ~GetExistingBatchesFails(db)

\* C26: in every plan two distinct batches have distinct object keys, a single-file batch
\* being stored at <file path>.tar.gz and a multi-file batch at <root>/_files.tar.gz
C26_KeysDistinct ==
    Planned =>
        \A i, j \in 1..Len(probe.out) : i # j => BatchKey(probe.out[i]) # BatchKey(probe.out[j])

\* the subdirectories of the root of the planned tree, in the order of os.ReadDir
RootDirs == SelectSeq(ReadDir(probe.tree, <<>>), LAMBDA n : IsDir(probe.tree, <<n>>))

\* what the planner returns for the subdirectory of that name
SubPlan(n) == getFilesToBackup(probe.tree, <<>>, probe.root, <<n>>, probe.T)

RECURSIVE SubPlansWhere(_, _)
SubPlansWhere(names, split) ==
    IF names = <<>> THEN <<>>
    ELSE (IF (Len(SubPlan(Head(names))) > 1) = split THEN SubPlan(Head(names)) ELSE <<>>)
             \o SubPlansWhere(Tail(names), split)

\* the batches of the subdirectories that returned at most one batch, and of the others
RollupCandidates == SubPlansWhere(RootDirs, FALSE)
SplitBatches == SubPlansWhere(RootDirs, TRUE)

\* the root's own files and the batches emitted for them
RootOwnPaths == { p \in DOMAIN probe.tree : Len(p) = 1 }
RootOwnFiles ==
    LET names == SelectSeq(ReadDir(probe.tree, <<>>), LAMBDA n : <<n>> \in RootOwnPaths)
    IN  [i \in 1..Len(names) |-> [Path |-> <<names[i]>>,
                                   FileSize |-> Size(probe.tree[<<names[i]>>]),
                                   IsDirty |-> TRUE]]
RootOwnBatches == OwnFileBatches(<<>>, RootOwnFiles, probe.T)

\* the four conditions of the roll-up
RollupConditions ==
    /\ Len(RootOwnBatches) <= 1
    /\ Len(RollupCandidates) >= 1
    /\ Len(SplitBatches) = 0
    /\ sumSizes(BatchSizes(RollupCandidates))
           + (IF Len(RootOwnBatches) = 1 THEN RootOwnBatches[1].TotalSize ELSE 0) <= probe.T

\* the plan is one batch with root "." of the own files and the files of every candidate
MergedAtRoot ==
    /\ Len(probe.out) = 1
    /\ probe.out[1].Root = <<>>
    /\ BatchPathSet(probe.out[1])
           = RootOwnPaths \cup UNION { BatchPathSet(RollupCandidates[i])
                                        : i \in 1..Len(RollupCandidates) }
    /\ Len(probe.out[1].Files) = Cardinality(BatchPathSet(probe.out[1]))

\* the plan is the own-files batches, the split subdirectories' batches and the candidates
PassedUp == probe.out = RootOwnBatches \o SplitBatches \o RollupCandidates

\* the directory has nothing but one candidate from below
LoneCandidate ==
    RootOwnPaths = {} /\ Len(SplitBatches) = 0 /\ Len(RollupCandidates) = 1

\* C27 as stated: the planner returns one batch with the directory's root, of the own files
\* and the files of all candidates, if and only if at most one own-files batch was emitted,
\* some subdirectory returned a candidate, none returned two or more batches and the sizes
\* sum to at most T; otherwise it returns own-files batches, split batches and candidates
C27_RollupIffConditions ==
    Planned =>
        /\ MergedAtRoot <=> RollupConditions
        /\ ~RollupConditions => PassedUp

\* C27 amended: where some subdirectory returned a candidate, the planner returns the one
\* merged batch if and only if the four conditions hold and the directory has more than a
\* lone candidate; in every other case it returns own-files batches, split batches and
\* candidates unchanged, a lone candidate keeping its own root
C27_RollupUnlessLoneCandidate ==
    Planned =>
        /\ Len(RollupCandidates) >= 1 => (MergedAtRoot <=> (RollupConditions /\ ~LoneCandidate))
        /\ ~(RollupConditions /\ ~LoneCandidate) => PassedUp

\* own files and the files of two candidates merged into one batch with root "."
C27_Witness ==
    /\ Planned
    /\ RollupConditions /\ ~LoneCandidate
    /\ Len(RollupCandidates) = 2 /\ RootOwnPaths # {}
    /\ MergedAtRoot

RECURSIVE PathsSize(_)
\* the sizes of the files of the planned tree at these paths, added up
PathsSize(S) ==
    IF S = {} THEN 0
    ELSE LET p == CHOOSE q \in S : TRUE
         IN  Size(probe.tree[p]) + PathsSize(S \ {p})

\* the root's own files that the first n batches of the plan hold
PoppedBefore(n) == UNION { BatchPathSet(probe.out[j]) : j \in 1..n } \cap RootOwnPaths

\* batch j of the plan is the largest own file not yet popped, popped because the files
\* not yet popped sum to more than T
PopsLargest(j) ==
    LET rest == RootOwnPaths \ PoppedBefore(j - 1)
    IN  /\ PathsSize(rest) > probe.T
        /\ Len(probe.out[j].Files) = 1
        /\ probe.out[j].Files[1].Path \in rest
        /\ \A q \in rest : Size(probe.tree[q]) <= probe.out[j].Files[1].FileSize
        /\ probe.out[j].TotalSize = probe.out[j].Files[1].FileSize

\* the plan starts with k popped files and the batch of the files that remain, if any
PopsThenRest(k) ==
    LET rest == RootOwnPaths \ PoppedBefore(k)
    IN  /\ k <= Len(probe.out)
        /\ \A j \in 1..k : PopsLargest(j)
        /\ PathsSize(rest) <= probe.T
        /\ rest # {} =>
               /\ Len(probe.out) >= k + 1
               /\ BatchPathSet(probe.out[k + 1]) = rest
               /\ Len(probe.out[k + 1].Files) = Cardinality(rest)

\* C28: when the own files of a directory sum to more than T the planner emits the largest
\* remaining file as a single-file batch until the remaining files sum to at most T, then
\* the remaining files, if any, as one batch; when they sum to at most T it emits them all
\* as one batch and splits none
C28_PopLargestUntilFits ==
    (Planned /\ RootOwnPaths # {}) =>
        IF PathsSize(RootOwnPaths) > probe.T
        THEN \E k \in 1..Cardinality(RootOwnPaths) : PopsThenRest(k)
        ELSE \E i \in 1..Len(probe.out) :
                 /\ RootOwnPaths \subseteq BatchPathSet(probe.out[i])
                 /\ \A j \in 1..Len(probe.out[i].Files) :
                        \A l \in 1..Len(probe.out[i].Files) :
                            j # l => probe.out[i].Files[j].Path # probe.out[i].Files[l].Path

\* three own files of which the two largest were popped, the largest first, and the third
\* remained
C28_Witness ==
    /\ Planned
    /\ Cardinality(RootOwnPaths) = 3
    /\ PopsThenRest(2)
    /\ probe.out[1].TotalSize > probe.out[2].TotalSize
    /\ RootOwnPaths \ PoppedBefore(2) # {}

\* C29: in every plan the root of a batch is the path of one of its files if and only if
\* the batch has exactly one file; the root of a batch of two or more files is the relative
\* path of a directory of the tree, or ".", and is the path of none of its files
C29_RootIsFileIffLone ==
    Planned =>
        \A i \in 1..Len(probe.out) :
            LET b == probe.out[i] IN
            /\ (b.Root \in BatchPathSet(b)) <=> (Len(b.Files) = 1)
            /\ Len(b.Files) >= 2 =>
                   /\ b.Root = <<>> \/ IsDir(probe.tree, b.Root)
                   /\ b.Root \notin DOMAIN probe.tree

\* a plan with a batch of one file named after the file, next to a batch of several files
\* named after the directory "d"
C29_Witness ==
    /\ Planned
    /\ \E i \in 1..Len(probe.out) :
           Len(probe.out[i].Files) = 1 /\ probe.out[i].Root = probe.out[i].Files[1].Path
    /\ \E i \in 1..Len(probe.out) :
           Len(probe.out[i].Files) >= 2 /\ probe.out[i].Root = <<"d">>

\* C30: in every plan the planner returns, whatever the tree and the threshold, no two
\* batches have the same root
C30_RootsUnique ==
    Planned =>
        \A i, j \in 1..Len(probe.out) : i # j => probe.out[i].Root # probe.out[j].Root

\* a plan of two files of one directory popped into batches of their own and of a batch of
\* several files
C30_Witness ==
    /\ Planned
    /\ \E i, j \in 1..Len(probe.out) :
           /\ i # j
           /\ Len(probe.out[i].Files) = 1 /\ Len(probe.out[j].Files) = 1
           /\ Len(probe.out[i].Root) = 2
           /\ Front(probe.out[i].Root) = Front(probe.out[j].Root)
    /\ \E i \in 1..Len(probe.out) : Len(probe.out[i].Files) >= 2

\* C31: every file of the tree whose name is not backup.db is in some batch of the plan,
\* whatever the depth, the threshold and the mix of split and rolled-up subdirectories
C31_NoFileDropped ==
    Planned =>
        \A p \in DOMAIN probe.tree :
            Last(p) # "backup.db" => p \in PlanFiles(probe.out)

\* a plan of a tree three directories deep with a file named backup.db, in which a batch
\* bubbled up from b/a/a, the files of d/d were rolled up or split, and every other file is
\* planned
C31_Witness ==
    /\ Planned
    /\ { <<"a">>, <<"b", "a", "a">>, <<"d", "a">>, <<"d", "d", "a">>, <<"d", "d", "b">>,
         <<"d", "backup.db">> } \subseteq DOMAIN probe.tree
    /\ Len(probe.out) >= 3
    /\ \E i \in 1..Len(probe.out) : Len(probe.out[i].Files) >= 2
    /\ \E i \in 1..Len(probe.out) : probe.out[i].Root = <<"b", "a", "a">>
    /\ PlanFiles(probe.out) = { p \in DOMAIN probe.tree : Last(p) # "backup.db" }

\* the names of the entries of the archive of a batch of the plan
EntryNames(batch) ==
    { BatchArchive(probe.tree, batch)[i].Name : i \in 1..Len(batch.Files) }

\* C32: every member of a batch of several files has a path strictly inside the root of the
\* batch, so no entry name of its archive, taken relative to that root, has a ".."
\* component, and extracting an entry at the root of the batch writes inside it
C32_MembersInsideRoot ==
    Planned =>
        \A i \in 1..Len(probe.out) :
            LET b == probe.out[i] IN
            Len(b.Files) >= 2 =>
                /\ \A j \in 1..Len(b.Files) : IsProperPrefix(b.Root, b.Files[j].Path)
                /\ \A n \in EntryNames(b) :
                       /\ \A k \in 1..Len(n) : n[k] # ".."
                       /\ Join(b.Root, n) \in BatchPathSet(b)

\* a batch with root "d" of files at two depths, archived as a and d/a next to a batch
\* bubbled up from b/a
C32_Witness ==
    /\ Planned
    /\ \E i \in 1..Len(probe.out) :
           /\ probe.out[i].Root = <<"d">>
           /\ { <<"a">>, <<"d", "a">> } \subseteq EntryNames(probe.out[i])
    /\ \E i \in 1..Len(probe.out) : Len(probe.out[i].Root) = 3

\* the whole tree of the scenario was planned with the threshold of the test
ScenarioPlanned == Planned /\ probe.tree = ScenarioTree /\ probe.T = ScenarioThreshold

\* the plan has a batch with this root and exactly these files
HasBatch(batchRoot, paths) ==
    \E i \in 1..Len(probe.out) :
        /\ probe.out[i].Root = batchRoot
        /\ BatchPathSet(probe.out[i]) = paths
        /\ Len(probe.out[i].Files) = Cardinality(paths)

SmallUnderSubdir1 ==
    { p \in DOMAIN ScenarioSizes : Len(p) > 1 /\ ScenarioSizes[p] <= ScenarioThreshold }
BigFile == <<"subdir-1", "four", "five", "six", "big.txt">>
RootFiles == { p \in DOMAIN ScenarioSizes : Len(p) = 1 }

\* C33 as stated: the plan of the scenario holds big.txt as a single-file batch, one batch
\* with root subdir-1 of the three small files under subdir-1, and one batch with root "."
\* of the three root files
C33_Subdir1RolledUp ==
    ScenarioPlanned =>
        /\ HasBatch(BigFile, {BigFile})
        /\ HasBatch(<<"subdir-1">>, SmallUnderSubdir1)
        /\ HasBatch(<<>>, RootFiles)

\* C33 amended: the plan of the scenario holds big.txt as a single-file batch, each of the
\* three small files under subdir-1 as a single-file batch of its own, and one batch with
\* root "." of the three root files, five batches in all
C33_Subdir1NotGrouped ==
    ScenarioPlanned =>
        /\ HasBatch(BigFile, {BigFile})
        /\ \A p \in SmallUnderSubdir1 : HasBatch(p, {p})
        /\ HasBatch(<<>>, RootFiles)
        /\ Len(probe.out) = 5

\* the scenario was planned: big.txt was split off and the root files were grouped
C33_Witness ==
    /\ ScenarioPlanned
    /\ Cardinality(SmallUnderSubdir1) = 3
    /\ HasBatch(BigFile, {BigFile})
    /\ HasBatch(<<>>, RootFiles)

\* the step is a round of the delete loop of a backup that is no dry run
DeleteRound == pc = "run" /\ ~dryRun /\ toDelete # {}

\* the step deleted the object of b and the records of b, and nothing else
DeletedExactly(b) ==
    /\ toDelete' = toDelete \ {b}
    /\ DOMAIN objects' = DOMAIN objects \ { BatchMetaKey(b) }
    /\ \A k \in DOMAIN objects' : objects'[k] = objects[k]
    /\ DOMAIN db' = { p \in DOMAIN db : db[p].Batch # b.Path }
    /\ \A p \in DOMAIN db' : db'[p] = db[p]

DeleteRoundStep ==
    DeleteRound =>
        /\ pc' = "run" => \E b \in toDelete : DeletedExactly(b)
        /\ (pc' = "idle" /\ last'.outcome = "fatal") => (db' = db /\ objects' = objects)

\* C34: a delete of a retired batch b that is no dry run deletes the remote object at the
\* key of b and removes from the manifest the records whose batch is b and no record of
\* another batch; when the remote delete fails no record is removed
C34_DeleteRemovesBatchOnly == [][DeleteRoundStep]_vars

\* a retired batch of several files was deleted: its object and its records are gone, and
\* records of another batch remain
C34_Witness ==
    /\ last.kind = "backup" /\ ~last.dryRun
    /\ \E b \in Retired :
           /\ Cardinality(GetFilesInBatch(last.db, b.Path)) >= 2
           /\ \E i \in Ops("delete") : log[i].key = BatchMetaKey(b)
           /\ GetFilesInBatch(db, b.Path) = {}
           /\ BatchMetaKey(b) \notin DOMAIN objects
    /\ \E p \in DOMAIN db : p \in DOMAIN last.db /\ db[p] = last.db[p]

BatchesRead == probe.fn = "GetExistingBatches" /\ probe.done

\* the batch values of the manifest read, and the paths recorded under one of them
ManifestBatchValues == { probe.recs[p].Batch : p \in DOMAIN probe.recs }
MembersOf(b) == { p \in DOMAIN probe.recs : probe.recs[p].Batch = b }
\* the group holds a member at the path of the batch and a member at another path
MixedGroup(b) == b \in MembersOf(b) /\ MembersOf(b) # {b}

\* C35: reading the batches of a manifest fails when some group holds both a member whose
\* path is the batch value and a member whose path is not, and only then; otherwise it
\* returns one entry per distinct batch value, is_single_file being true exactly when every
\* member's path is the batch value
C35_OneEntryPerBatch ==
    BatchesRead =>
        /\ probe.out.err <=> \E b \in ManifestBatchValues : MixedGroup(b)
        /\ ~probe.out.err =>
               /\ { m.Path : m \in probe.out.batches } = ManifestBatchValues
               /\ Cardinality(probe.out.batches) = Cardinality(ManifestBatchValues)
               /\ \A m \in probe.out.batches :
                      m.IsSingleFile <=> MembersOf(m.Path) = {m.Path}

\* a manifest read as three batches: a single file, a directory of one record and a
\* directory of two
C35_Witness ==
    /\ BatchesRead
    /\ ~probe.out.err
    /\ Cardinality(probe.out.batches) = 3
    /\ \E m \in probe.out.batches : m.IsSingleFile
    /\ \E m \in probe.out.batches : ~m.IsSingleFile /\ Cardinality(MembersOf(m.Path)) = 1
    /\ \E m \in probe.out.batches : ~m.IsSingleFile /\ Cardinality(MembersOf(m.Path)) = 2

\* C36: an error raised during a backup ends the invocation: once the upsert of the record
\* of a member has failed after the put of the archive of its batch, the backup has stopped
\* with an error and has not put the remote manifest
C36_MarkFailureStops ==
    (last.kind = "backup" /\ Ops("markfail") # {}) =>
        /\ last.outcome # "ok"
        /\ Ops("putdb") = {}

\* a recovery ran past the drift gate and the download of the manifest while the foreign
\* object was under the prefix
RecoveredWithForeign ==
    /\ last.kind = "recover"
    /\ last.outcome \in {"ok", "fatal"}
    /\ ForeignKey \in DOMAIN objects

\* C37: during recovery an object under the prefix whose key does not end in .tar.gz is
\* downloaded to its local path and left as it is, neither extracted nor deleted, and the
\* recovery goes on with the next object: it ends well, with the object's bytes at its path
\* and the files of every archive extracted
C37_ForeignLeftAsIs ==
    RecoveredWithForeign =>
        /\ last.outcome = "ok"
        /\ ForeignKey \in DOMAIN dest
        /\ dest[ForeignKey].content = ForeignBytes
        /\ DOMAIN db \subseteq DOMAIN dest

\* C38: in a backup that is no dry run the manifest session opened at the start is closed
\* before the manifest file is compressed and put, and the file put is a complete copy of
\* the manifest
C38_ClosedBeforePersist ==
    (last.kind = "backup" /\ ~last.dryRun /\ Ops("putdb") # {}) =>
        /\ last.session = "closed"
        /\ remoteDb.present /\ remoteDb.recs = db

\* the entries for path p in the archive that the record of p points to
ArchivedEntries(p) ==
    LET key == RecordKey(p, db[p])
    IN  IF key \notin DOMAIN objects THEN {}
        ELSE { e \in { objects[key][i] : i \in 1..Len(objects[key]) }
                 : Join(Front(key), e.Name) = p }

\* C39: for every manifest record the stored hash and mod-time are those of the bytes that
\* the archive uploaded for the file holds, also when another process writes the file
\* between the building of the archive and the writing of the record
C39_RecordDescribesArchive ==
    \A p \in DOMAIN db :
        \A e \in ArchivedEntries(p) :
            /\ db[p].Hash = e.Content
            /\ db[p].ModTime = FormatModTime(e.ModTime)

====
